---- MODULE Spec2Model ----
(***************************************************************************)
(* Whisperer (src/whisperer.py): expansion of the --range argument into    *)
(* the download queue, resolution of the latest issue id, and the          *)
(* sequential download loop with its overwrite / skip / continue prompts.  *)
(*                                                                         *)
(* Text is modelled as a sequence of symbols.  A symbol is a decimal       *)
(* digit, the dash, one of the keywords "last" and "all", or "None" (the   *)
(* text str() gives for an absent latest issue id).  No other symbol       *)
(* contains a keyword or a dash, so the substring tests of the code are    *)
(* membership tests on the symbols.                                        *)
(*                                                                         *)
(* The disk is assumed to accept writes: open() and write() do not fail.   *)
(* The output directory was validated by the constructor.                  *)
(***************************************************************************)
EXTENDS Integers, Sequences, FiniteSets, TLC

\* ------------------------------------------------------------------ bounds
MaxTokens  == 2     \* tokens in the --range list
MaxId      == 2     \* largest issue id: written in a token, referred to by
                    \* the index page, or already on disk
MaxRefs    == 1     \* issue references on the index page

\* --------------------------------------------------------- program values
None == -1                      \* Python None, for an optional integer
FIRST_ISSUE_ID == 1

Range(s) == {s[i] : i \in 1..Len(s)}

SeqsUpTo(S, n) == UNION {[1..k -> S] : k \in 0..n}

\* --------------------------------------------------------------- str, int
DigitChars == <<"0", "1", "2", "3", "4", "5", "6", "7", "8", "9">>

IsDigit(c) == \E i \in 1..10 : DigitChars[i] = c

DigitVal(c) == (CHOOSE i \in 1..10 : DigitChars[i] = c) - 1

RECURSIVE DecimalText(_)
DecimalText(n) ==
    IF n < 10 THEN <<DigitChars[n + 1]>>
    ELSE DecimalText(n \div 10) \o <<DigitChars[(n % 10) + 1]>>

\* str(x) for x an integer >= 0 or None
str(x) == IF x = None THEN <<"None">> ELSE DecimalText(x)

RECURSIVE DecimalValue(_)
DecimalValue(s) ==
    IF s = <<>> THEN 0
    ELSE 10 * DecimalValue(SubSeq(s, 1, Len(s) - 1)) + DigitVal(s[Len(s)])

\* int(s) for a text s: ValueError unless s is a non-empty run of digits
\* (no symbol stands for a sign, a blank or an underscore)
int(s) ==
    IF s # <<>> /\ \A i \in 1..Len(s) : IsDigit(s[i])
    THEN [raised |-> "none", val |-> DecimalValue(s)]
    ELSE [raised |-> "ValueError", val |-> 0]

\* int(h) for an optional text h (the Content-Length header): the optional
\* value is a sequence of no element (None) or of one text
intOpt(h) ==
    IF h = <<>> THEN [raised |-> "TypeError", val |-> 0] ELSE int(h[1])

\* ----------------------------------------------------- split, replace, in
RECURSIVE split(_, _)
split(s, sep) ==
    IF sep \notin Range(s) THEN <<s>>
    ELSE LET i == CHOOSE k \in 1..Len(s) :
                     s[k] = sep /\ \A j \in 1..(k - 1) : s[j] # sep
         IN  <<SubSeq(s, 1, i - 1)>> \o split(SubSeq(s, i + 1, Len(s)), sep)

RECURSIVE replace(_, _, _)
replace(s, old, new) ==
    IF s = <<>> THEN <<>>
    ELSE (IF Head(s) = old THEN new ELSE <<Head(s)>>)
         \o replace(Tail(s), old, new)

Contains(s, kw) == kw \in Range(s)

lower(a) == IF a = "Y" THEN "y" ELSE IF a = "N" THEN "n" ELSE a

RECURSIVE sorted(_)
sorted(S) ==
    IF S = {} THEN <<>>
    ELSE LET m == CHOOSE x \in S : \A y \in S : x <= y
         IN  <<m>> \o sorted(S \ {m})

\* ------------------------------------------------------------ the network
\* What urlopen() does for one request.  "URLError" is a URLError whose
\* reason is a text; "URLErrorOS" is the URLError urllib raises for a failed
\* connection or name lookup, whose reason is the OSError object.
ErrorKinds == {"HTTPError", "URLError", "URLErrorOS", "Exception"}

\* the bodies a response may carry: an empty one and one of some bytes
Bodies == {<<>>, <<"B">>}

\* Content-Length of a response, an optional text: absent, the decimal
\* length of the body, or a text that is no number (the empty text)
ContentLengths(body) == {<<>>, <<str(Len(body))>>, <<<<>>>>}

Failures ==
    {[kind |-> k, body |-> <<>>, length |-> <<>>] : k \in ErrorKinds}

IssueResponses ==
    UNION {{[kind |-> "ok", body |-> b, length |-> l] :
               l \in ContentLengths(b)} : b \in Bodies}
    \cup Failures

\* The index page, as the issue numbers its links refer to, in page order
IndexResponses ==
    {[kind |-> "ok", body |-> refs, length |-> <<>>] :
        refs \in SeqsUpTo(1..MaxId, MaxRefs)}
    \cup Failures

NoResponse == [kind |-> "none", body |-> <<>>, length |-> <<>>]

\* what is recorded of an answer for the index page: the failure, or whether
\* the page refers to an issue
Page(resp) ==
    IF resp.kind = "ok"
    THEN (IF resp.body = <<>> THEN "nomatch" ELSE "match")
    ELSE resp.kind

NoPage == Page(NoResponse)

\* _fetch_url_content: the data and header returned, or the exception that
\* leaves the function
FetchUrlContent(resp) ==
    [raised |-> CASE resp.kind = "ok"         -> "none"
                  [] resp.kind = "HTTPError"  -> "HTTPError"
                  [] resp.kind = "URLError"   -> "URLError"
                  [] resp.kind = "URLErrorOS" -> "TypeError"
                  [] OTHER                    -> "Exception",
     data   |-> resp.body,
     length |-> resp.length]

\* variant of _get_last_issue_id that never consults the cache
GetLastIssueIdNoCache(cached, resp) ==
    LET r == FetchUrlContent(resp)
        found == IF r.data = <<>> THEN None ELSE r.data[1]
    IN  IF r.raised # "none"
        THEN [raised |-> r.raised, ret |-> None, cache |-> cached,
              fetched |-> TRUE]
        ELSE [raised |-> "none", ret |-> found, cache |-> found,
              fetched |-> TRUE]

\* _get_last_issue_id
GetLastIssueId(cached, resp) ==
    IF cached # None
    THEN [raised |-> "none", ret |-> cached, cache |-> cached, fetched |-> FALSE]
    ELSE LET r == FetchUrlContent(resp)
             found == IF r.data = <<>> THEN None ELSE r.data[1]
         IN  IF r.raised # "none"
             THEN [raised |-> r.raised, ret |-> None, cache |-> cached,
                   fetched |-> TRUE]
             ELSE [raised |-> "none", ret |-> found, cache |-> found,
                   fetched |-> TRUE]

\* --------------------------------------------------------- range expansion
\* range(a, b) of Python
range(a, b) == a..(b - 1)

\* variant of the range of line 149 that leaves the last id out
IssueIdRangeExclusive(start, finish) == range(start, finish)

IssueIdRange(start, finish) == range(start, finish + 1)

add_issue_id(q, issue_id) == q \cup {issue_id}

add_issue_id_range(q, issue_id_range) == q \cup issue_id_range

NeedsLastIssueId(issue_range) ==
    \/ issue_range = <<"all">>
    \/ ~Contains(issue_range, "all") /\ Contains(issue_range, "last")

\* main, lines 135-144: substitution of the keywords in one token
SubstituteKeywords(issue_range, cached, resp) ==
    IF Contains(issue_range, "all") /\ issue_range # <<"all">>
    THEN [raised |-> "SystemExit", issue_range |-> issue_range,
          cache |-> cached, ret |-> None, called |-> FALSE, fetched |-> FALSE]
    ELSE IF ~NeedsLastIssueId(issue_range)
    THEN [raised |-> "none", issue_range |-> issue_range,
          cache |-> cached, ret |-> None, called |-> FALSE, fetched |-> FALSE]
    ELSE LET g == GetLastIssueId(cached, resp)
         IN  [raised |-> g.raised,
              issue_range |->
                  IF issue_range = <<"all">>
                  THEN str(FIRST_ISSUE_ID) \o <<"-">> \o str(g.ret)
                  ELSE replace(issue_range, "last", str(g.ret)),
              cache |-> g.cache, ret |-> g.ret, called |-> TRUE,
              fetched |-> g.fetched]

\* variant of lines 147-152 that ignores a token it cannot parse
ExpandIssueRangeLenient(q, issue_range) ==
    IF Contains(issue_range, "-")
    THEN LET parts == split(issue_range, "-")
         IN  IF Len(parts) # 2 THEN [raised |-> "none", queue |-> q]
             ELSE LET start == int(parts[1])
                      finish == int(parts[2])
                  IN  IF start.raised # "none" \/ finish.raised # "none"
                      THEN [raised |-> "none", queue |-> q]
                      ELSE [raised |-> "none",
                            queue |-> add_issue_id_range(q,
                                        IssueIdRange(start.val, finish.val))]
    ELSE LET n == int(issue_range)
         IN  IF n.raised # "none" THEN [raised |-> "none", queue |-> q]
             ELSE [raised |-> "none", queue |-> add_issue_id(q, n.val)]

\* main, lines 147-152: the queue after one substituted token is expanded
ExpandIssueRange(q, issue_range) ==
    IF Contains(issue_range, "-")
    THEN LET parts == split(issue_range, "-")
         IN  IF Len(parts) # 2 THEN [raised |-> "ValueError", queue |-> q]
             ELSE LET start == int(parts[1])
                      finish == int(parts[2])
                  IN  IF start.raised # "none" \/ finish.raised # "none"
                      THEN [raised |-> "ValueError", queue |-> q]
                      ELSE [raised |-> "none",
                            queue |-> add_issue_id_range(q,
                                        IssueIdRange(start.val, finish.val))]
    ELSE LET n == int(issue_range)
         IN  IF n.raised # "none" THEN [raised |-> "ValueError", queue |-> q]
             ELSE [raised |-> "none", queue |-> add_issue_id(q, n.val)]

\* ------------------------------------------------------------ one download
HexChars == <<"0", "1", "2", "3", "4", "5", "6", "7", "8", "9",
              "A", "B", "C", "D", "E", "F">>

RECURSIVE HexText(_)
HexText(n) ==
    IF n < 16 THEN <<HexChars[n + 1]>>
    ELSE HexText(n \div 16) \o <<HexChars[(n % 16) + 1]>>

\* "%02X"
Hex2(n) == IF n < 16 THEN <<"0">> \o HexText(n) ELSE HexText(n)

\* _generate_issue_url, as path segments separated by "/"
GenerateIssueUrl(issue_id) ==
    <<"http:", "/", "/", "www.digitalwhisper.co.il", "/", "files", "/",
      "Zines", "/", "0x">> \o Hex2(issue_id)
    \o <<"/", "DigitalWhisper">> \o str(issue_id) \o <<".pdf">>

\* issue_url[issue_url.rfind('/')+1:]
Filename(issue_url) ==
    LET i == CHOOSE k \in 1..Len(issue_url) :
                 issue_url[k] = "/"
                 /\ \A j \in (k + 1)..Len(issue_url) : issue_url[j] # "/"
    IN  SubSeq(issue_url, i + 1, Len(issue_url))

\* the file of an issue inside the download directory
OutPath(issue_id) == Filename(GenerateIssueUrl(issue_id))

IsFile(fs, path) == path \in DOMAIN fs

\* line 72
CheckExisting(ow, exists) == (~ow) /\ exists

\* variant of lines 72-80 that never looks at the skip flag
ExistingFilePolicyNoSkip(ow, sk, exists) ==
    IF CheckExisting(ow, exists) THEN "ask" ELSE "fetch"

\* lines 72-80: what is done about the target file before any fetch
ExistingFilePolicy(ow, sk, exists) ==
    IF CheckExisting(ow, exists)
    THEN (IF sk THEN "skip" ELSE "ask")
    ELSE "fetch"

\* variant of the test of an answer without lower()
IsYesExact(answer) == answer = "y"

\* lines 78 and 101
IsYes(answer) == lower(answer) = "y"

\* lines 83-87: open(out_path, 'wb') empties or creates the file, then the
\* size is computed from the header, then the body is written
WriteIssue(fs, out_path, data) ==
    LET size == intOpt(data.length)
    IN  IF size.raised # "none"
        THEN [files |-> (out_path :> <<>>) @@ fs, raised |-> size.raised]
        ELSE [files |-> (out_path :> data.data) @@ fs, raised |-> "none"]

\* variant of _download_issue that opens the file before it fetches
download_issue_open_first(fs, issue_id, ow, sk, answer, resp) ==
    LET out_path == OutPath(issue_id)
        policy == ExistingFilePolicy(ow, sk, IsFile(fs, out_path))
        asked == IF policy = "ask" THEN 1 ELSE 0
    IN  IF policy = "skip" \/ (policy = "ask" /\ ~IsYes(answer))
        THEN [files |-> fs, raised |-> "none", prompts |-> asked,
              fetched |-> FALSE, opened |-> FALSE]
        ELSE LET data == FetchUrlContent(resp)
             IN  IF data.raised # "none"
                 THEN [files |-> (out_path :> <<>>) @@ fs,
                       raised |-> data.raised,
                       prompts |-> asked, fetched |-> TRUE, opened |-> TRUE]
                 ELSE LET w == WriteIssue(fs, out_path, data)
                      IN  [files |-> w.files, raised |-> w.raised,
                           prompts |-> asked, fetched |-> TRUE,
                           opened |-> TRUE]

\* _download_issue
download_issue(fs, issue_id, ow, sk, answer, resp) ==
    LET out_path == OutPath(issue_id)
        policy == ExistingFilePolicy(ow, sk, IsFile(fs, out_path))
        asked == IF policy = "ask" THEN 1 ELSE 0
    IN  IF policy = "skip" \/ (policy = "ask" /\ ~IsYes(answer))
        THEN [files |-> fs, raised |-> "none", prompts |-> asked,
              fetched |-> FALSE, opened |-> FALSE]
        ELSE LET data == FetchUrlContent(resp)
             IN  IF data.raised # "none"
                 THEN [files |-> fs, raised |-> data.raised,
                       prompts |-> asked, fetched |-> TRUE, opened |-> FALSE]
                 ELSE LET w == WriteIssue(fs, out_path, data)
                      IN  [files |-> w.files, raised |-> w.raised,
                           prompts |-> asked, fetched |-> TRUE,
                           opened |-> TRUE]

\* line 98: except urllib.error.URLError (HTTPError is a subclass)
Caught(exc) == exc \in {"URLError", "HTTPError"}

\* ------------------------------------------------------------------- state
VARIABLES
    pc,             \* "expand": the loop of main over the tokens;
                    \* "download": the loop of download();
                    \* "finish": download() returned; "exit": process ended
    exit_status,    \* None while the process runs
    raised,         \* the exception that ended the process, or "none"
    all_done,       \* "All Done!" was printed
    overwrite,      \* _overwrite_without_confirmation
    skip,           \* _skip_existing_issues
    ntokens,        \* tokens of options.range the loop of main has taken
    issue_range,    \* the token taken by the latest iteration of that loop
    queue,          \* _download_queue
    cache,          \* _last_issue_id_cache
    index_fetches,  \* requests made for the index page
    last_return,    \* value the latest call of _get_last_issue_id returned
    index_resp,     \* what the network answered to that call, if asked
    files,          \* the download directory: path -> content
    todo,           \* ids sorted(self._download_queue) has still to yield
    total,          \* len(self._download_queue) taken by download()
    counter,        \* the progress counter of download()
    step,           \* what the latest iteration of download() did
    fetched,        \* issue ids whose URL was requested
    opened          \* paths that were opened for writing

vars == <<pc, exit_status, raised, all_done, overwrite, skip, ntokens,
          issue_range, queue,
          cache, index_fetches, last_return, index_resp, files,
          todo, total, counter, step, fetched, opened>>

\* the parts of a token: an id, with or without a leading zero, a keyword,
\* or nothing
Numerals == {str(n) : n \in 1..MaxId}

Atoms == Numerals \cup {<<"0">> \o t : t \in Numerals}
               \cup {<<"last">>, <<"all">>, <<>>}

\* every token the expansion is explored on: one part, two parts around a
\* dash, or three ids around two dashes
Tokens ==
    Atoms
    \cup {a \o <<"-">> \o b : <<a, b>> \in Atoms \X Atoms}
    \cup {a \o <<"-">> \o b \o <<"-">> \o c :
             <<a, b, c>> \in Numerals \X Numerals \X Numerals}

\* the tokens of the full runs: an id, a range, an empty range, both
\* keywords, 'all' inside a range, and three malformed tokens
CliTokens ==
    {<<"1">>, <<"1", "-", "2">>, <<"2", "-", "1">>, <<"last">>, <<"all">>,
     <<"all", "-", "2">>, <<"1", "-">>, <<>>, <<"1", "-", "2", "-", "1">>}

\* what the user may type at a prompt
Answers == {"y", "Y", "n"}

\* the answers read when a prompt is shown; no input is read otherwise
AnswersIf(asked) == IF asked THEN Answers ELSE {"-"}

OldContent == <<"A">>

NoStep ==
    [id |-> None, existed |-> FALSE, before |-> <<>>,
     overwrite_prompts |-> 0, overwrite_answer |-> "-", fetches |-> 0,
     response |-> NoResponse, raised |-> "none",
     continue_prompts |-> 0, continue_answer |-> "-"]

\* Whisperer.__init__ with a valid directory, lines 21-27
Init ==
    /\ pc = "expand"
    /\ exit_status = None
    /\ raised = "none"
    /\ all_done = FALSE
    /\ overwrite \in BOOLEAN
    /\ skip \in BOOLEAN
    /\ ntokens = 0
    /\ issue_range = <<>>
    /\ queue = {}
    /\ cache = None
    /\ index_fetches = 0
    /\ last_return = None
    /\ index_resp = NoPage
    /\ files \in {[p \in {OutPath(i) : i \in S} |-> OldContent] :
                     S \in SUBSET (1..MaxId)}
    /\ todo = <<>>
    /\ total = None
    /\ counter = 0
    /\ step = NoStep
    /\ fetched = {}
    /\ opened = {}

\* one iteration of the loop of main, lines 133-152, on the token tok.  The
\* tokens of options.range.split(',') are supplied one at a time: the loop
\* never looks ahead, so a run over a list is a run over its tokens in order
ExpandToken(tok) ==
    /\ pc = "expand"
    /\ ntokens < MaxTokens
    /\ \E resp \in (IF NeedsLastIssueId(tok) THEN IndexResponses
                     ELSE {NoResponse}) :
         LET s == SubstituteKeywords(tok, cache, resp)
             e == IF s.raised = "none"
                  THEN ExpandIssueRange(queue, s.issue_range)
                  ELSE [raised |-> s.raised, queue |-> queue]
         IN  /\ ntokens' = ntokens + 1
             /\ issue_range' = tok
             /\ cache' = s.cache
             /\ index_fetches' = index_fetches + (IF s.fetched THEN 1 ELSE 0)
             /\ last_return' = IF s.called THEN s.ret ELSE last_return
             /\ index_resp' = IF s.called
                              THEN (IF s.fetched THEN Page(resp) ELSE NoPage)
                              ELSE index_resp
             /\ queue' = e.queue
             /\ IF e.raised = "none"
                THEN UNCHANGED <<pc, exit_status, raised>>
                ELSE /\ pc' = "exit"
                     /\ exit_status' = 1
                     /\ raised' = e.raised
    /\ UNCHANGED <<all_done, overwrite, skip, files, todo, total, counter,
                   step, fetched, opened>>

Expand == \E tok \in CliTokens : ExpandToken(tok)

ExpandAny == \E tok \in Tokens : ExpandToken(tok)

\* main line 154 and download() lines 91-93: the list is exhausted (split
\* gives at least one token) and the loop over the sorted queue starts
Download ==
    /\ pc = "expand"
    /\ ntokens >= 1
    /\ total' = Cardinality(queue)
    /\ counter' = 0
    /\ todo' = sorted(queue)
    /\ pc' = IF queue = {} THEN "finish" ELSE "download"
    /\ UNCHANGED <<exit_status, raised, all_done, overwrite, skip, ntokens,
                   issue_range, queue, cache, index_fetches, last_return,
                   index_resp, files, step, fetched, opened>>

\* one iteration of the loop of download(), lines 93-102
DownloadIssue ==
    /\ pc = "download"
    /\ todo # <<>>
    /\ \E answer \in AnswersIf(ExistingFilePolicy(overwrite, skip,
                              IsFile(files, OutPath(Head(todo)))) = "ask"),
          resp \in IssueResponses :
        \E fail_continue \in AnswersIf(Caught(download_issue(files, Head(todo),
                              overwrite, skip, answer, resp).raised)) :
         LET issue_id == Head(todo)
             d == download_issue(files, issue_id, overwrite, skip, answer, resp)
             caught == Caught(d.raised)
             existed == IsFile(files, OutPath(issue_id))
         IN  /\ counter' = counter + 1
             /\ todo' = Tail(todo)
             /\ files' = d.files
             /\ fetched' = IF d.fetched THEN fetched \cup {issue_id} ELSE fetched
             /\ opened' = IF d.opened THEN opened \cup {OutPath(issue_id)}
                          ELSE opened
             /\ step' =
                  [id |-> issue_id,
                   existed |-> existed,
                   before |-> IF existed THEN files[OutPath(issue_id)] ELSE <<>>,
                   overwrite_prompts |-> d.prompts,
                   overwrite_answer |-> IF d.prompts > 0 THEN answer ELSE "-",
                   fetches |-> IF d.fetched THEN 1 ELSE 0,
                   response |-> IF d.fetched THEN resp ELSE NoResponse,
                   raised |-> d.raised,
                   continue_prompts |-> IF caught THEN 1 ELSE 0,
                   continue_answer |-> IF caught THEN fail_continue ELSE "-"]
             /\ IF d.raised # "none" /\ ~caught
                THEN /\ pc' = "exit"
                     /\ exit_status' = 1
                     /\ raised' = d.raised
                ELSE /\ pc' = IF (caught /\ ~IsYes(fail_continue))
                                 \/ Tail(todo) = <<>>
                              THEN "finish" ELSE "download"
                     /\ UNCHANGED <<exit_status, raised>>
    /\ UNCHANGED <<all_done, overwrite, skip, ntokens, issue_range,
                   queue, cache,
                   index_fetches, last_return, index_resp, total>>

\* variant of the end of main that reports an abandoned queue as a failure
AllDoneUnlessAbandoned ==
    /\ pc = "finish"
    /\ all_done' = (todo = <<>>)
    /\ exit_status' = IF todo = <<>> THEN 0 ELSE 1
    /\ pc' = "exit"
    /\ UNCHANGED <<raised, overwrite, skip, ntokens, issue_range,
                   queue, cache,
                   index_fetches, last_return, index_resp, files,
                   todo, total, counter, step, fetched, opened>>

\* main line 155 and the normal end of the process
AllDone ==
    /\ pc = "finish"
    /\ all_done' = TRUE
    /\ exit_status' = 0
    /\ pc' = "exit"
    /\ UNCHANGED <<raised, overwrite, skip, ntokens, issue_range,
                   queue, cache,
                   index_fetches, last_return, index_resp, files,
                   todo, total, counter, step, fetched, opened>>

Next == Expand \/ Download \/ DownloadIssue \/ AllDone

Spec == Init /\ [][Next]_vars

\* the expansion of the range list alone, on every token
NextExpand == ExpandAny \/ Download

InitExpand == Init /\ ~overwrite /\ ~skip /\ DOMAIN files = {}

SpecExpand == InitExpand /\ [][NextExpand]_vars

\* ============================================================= properties
\* The vocabulary of the statements below is defined on the text of the
\* tokens and on the recorded inputs, not through the operators above.

Affirmative == {"y", "Y"}

TransportFailures == {"HTTPError", "URLError", "URLErrorOS"}

Stepped == step.id # None

StepPath == OutPath(step.id)

\* the file of the latest iteration is as it was before that iteration
StepFileUntouched ==
    /\ IsFile(files, StepPath) = step.existed
    /\ step.existed => files[StepPath] = step.before

IsNumber(t) == t # <<>> /\ \A i \in 1..Len(t) : t[i] \in Range(DigitChars)

DashAt(t, k) ==
    /\ t[k] = "-"
    /\ IsNumber(SubSeq(t, 1, k - 1))
    /\ IsNumber(SubSeq(t, k + 1, Len(t)))

IsDashRange(t) == \E k \in 1..Len(t) : DashAt(t, k)

RECURSIVE Horner(_, _)
Horner(t, acc) ==
    IF t = <<>> THEN acc
    ELSE Horner(Tail(t), 10 * acc + DigitVal(Head(t)))

\* the ids a well-formed token names
TokenIds(t) ==
    IF IsNumber(t) THEN {Horner(t, 0)}
    ELSE LET k == CHOOSE j \in 1..Len(t) : DashAt(t, j)
             a == Horner(SubSeq(t, 1, k - 1), 0)
             b == Horner(SubSeq(t, k + 1, Len(t)), 0)
         IN  {n \in 0..b : a <= n}

WellFormed(t) == IsNumber(t) \/ IsDashRange(t)

HasKeyword(t) == "all" \in Range(t) \/ "last" \in Range(t)

AllMisused(t) == "all" \in Range(t) /\ t # <<"all">>

UsesLatest(t) == t = <<"all">> \/ ("all" \notin Range(t) /\ "last" \in Range(t))

NoMatch(page) == page = "nomatch"

\* ---- C1
\* C1 as stated: whatever the other options are, an iteration of download()
\* on an id whose file exists, with the skip flag set, requests nothing and
\* leaves the file as it was.
C1_SkipAlwaysWins ==
    (Stepped /\ skip /\ step.existed)
        => (step.fetches = 0 /\ StepFileUntouched)

\* C1 amended: with the skip flag set and the overwrite flag not set, an
\* iteration of download() on an id whose file exists requests nothing and
\* leaves the file as it was.
C1_SkipWithoutOverwrite ==
    (Stepped /\ skip /\ ~overwrite /\ step.existed)
        => (step.fetches = 0 /\ StepFileUntouched)

C1_Witness ==
    /\ Stepped /\ skip /\ ~overwrite /\ step.existed
    /\ step.id \notin fetched
    /\ files[StepPath] = OldContent

\* ---- C2
\* C2: a fetch that fails with an HTTP status error or a connection / name
\* lookup URL error is followed by the continue prompt; after an answer
\* that is not y/Y no later id is processed, after y/Y the next id in
\* ascending order is the one processed next.
C2_TransportFailurePrompts ==
    (Stepped /\ step.response.kind \in TransportFailures)
        => /\ step.continue_prompts = 1
           /\ step.continue_answer \notin Affirmative
                => /\ pc \in {"finish", "exit"}
                   /\ counter = Cardinality({q \in queue : q <= step.id})
           /\ (step.continue_answer \in Affirmative /\ todo # <<>>)
                => /\ pc = "download"
                   /\ Head(todo) \in queue
                   /\ Head(todo) > step.id
                   /\ \A q \in queue : q > step.id => Head(todo) <= q

\* ---- C3
\* C3: the queue starts empty and only the expansion of a token changes it;
\* a token that is a bare integer or an 'a-b' range of integers raises no
\* error and leaves the queue equal to its union with the ids the token
\* names: n names {n}, 'a-b' names a..b (nothing when b < a).  The queue
\* after expansion is therefore the union over the tokens, each id once.
C3_QueueIsUnion ==
    /\ queue = {}
    /\ [][IF ntokens' = ntokens + 1
          THEN WellFormed(issue_range')
                 => /\ raised' = "none"
                    /\ queue' = queue \cup TokenIds(issue_range')
          ELSE queue' = queue]_vars

C3_Witness ==
    /\ pc = "download"
    /\ ntokens = 2
    /\ IsDashRange(issue_range)
    /\ Cardinality(TokenIds(issue_range)) = 2
    /\ TokenIds(issue_range) \subseteq queue
    /\ Cardinality(queue) = 2

\* ---- C4
\* C4: with the overwrite flag set, an iteration of download() never shows
\* the overwrite prompt, and an id whose file exists is fetched and, when
\* the fetch succeeds, its file holds the fetched body.
C4_OverwriteFlag ==
    (Stepped /\ overwrite)
        => /\ step.overwrite_prompts = 0
           /\ step.existed
                => /\ step.fetches = 1
                   /\ step.response.kind = "ok"
                        => /\ IsFile(files, StepPath)
                           /\ files[StepPath] = step.response.body

\* ---- C5
\* C5: when the file exists and neither flag is set, the overwrite prompt is
\* shown once; an answer other than y/Y means no fetch and an unchanged
\* file, the answer y/Y means the issue is fetched.
C5_PromptDecides ==
    (Stepped /\ step.existed /\ ~overwrite /\ ~skip)
        => /\ step.overwrite_prompts = 1
           /\ step.overwrite_answer \notin Affirmative
                => (step.fetches = 0 /\ StepFileUntouched)
           /\ step.overwrite_answer \in Affirmative => step.fetches = 1

C5_Witness ==
    /\ Stepped /\ step.existed /\ ~overwrite /\ ~skip
    /\ step.overwrite_answer = "Y"
    /\ step.id \in fetched

\* ---- C6
\* the latest token taken is one the expansion cannot survive
ExpansionFatal ==
    /\ ntokens > 0
    /\ \/ AllMisused(issue_range)
       \/ ~HasKeyword(issue_range) /\ ~WellFormed(issue_range)
       \/ UsesLatest(issue_range) /\ NoMatch(index_resp)

\* C6: after a token with a misplaced 'all', a malformed integer, or a
\* substituted absent latest id, the process has ended with a non-zero
\* status, download() was never entered, no issue was requested and no
\* file was opened for writing.
C6_FatalExpansionStopsRun ==
    ExpansionFatal
        => /\ pc = "exit"
           /\ exit_status \notin {None, 0}
           /\ ~all_done
           /\ total = None
           /\ counter = 0
           /\ fetched = {}
           /\ opened = {}

C6_Witness ==
    /\ ExpansionFatal
    /\ ntokens = 2
    /\ AllMisused(issue_range)
    /\ queue # {}
    /\ pc = "exit"

\* ---- C7
\* C7: main calls _get_last_issue_id once for each token that is 'all' or
\* holds 'last'.  A call made when the cache holds an id returns that id,
\* keeps the cache and requests nothing; a call made when the cache is
\* absent requests the index page, and when the page has no match the cache
\* stays absent.
C7_CachedAfterSuccess ==
    [][(ntokens' = ntokens + 1 /\ UsesLatest(issue_range'))
        => IF cache # None
           THEN /\ last_return' = cache
                /\ cache' = cache
                /\ index_fetches' = index_fetches
           ELSE /\ index_fetches' = index_fetches + 1
                /\ NoMatch(index_resp') => (cache' = None /\ last_return' = None)
      ]_vars

\* the second token called with the id cached by the call of the first
C7_Witness ==
    /\ ntokens = 2
    /\ UsesLatest(issue_range)
    /\ index_resp = NoPage
    /\ index_fetches = 1
    /\ cache # None
    /\ last_return = cache

\* ---- C8
\* C8: after an iteration whose fetch succeeded, whatever the body and the
\* Content-Length (a text or absent), the file holds the whole body.
C8_FileHoldsBody ==
    (Stepped /\ step.response.kind = "ok")
        => /\ IsFile(files, StepPath)
           /\ files[StepPath] = step.response.body

\* ---- C9
Declined ==
    /\ Stepped
    /\ step.continue_prompts = 1
    /\ step.continue_answer \notin Affirmative

\* C9: after the continue prompt got an answer other than y/Y no exception
\* ends the run; the process is about to print "All Done!" or has printed
\* it and ended with status 0.
C9_DeclineEndsNormally ==
    Declined
        => /\ raised = "none"
           /\ \/ pc = "finish" /\ ENABLED AllDone
              \/ pc = "exit" /\ all_done /\ exit_status = 0

C9_Witness ==
    /\ Declined
    /\ todo # <<>>
    /\ pc = "exit"
    /\ all_done
    /\ exit_status = 0

\* ---- C10
\* C10: an iteration whose fetch fails with a transport error leaves the
\* download directory as it was: no file is opened, created or changed.
C10_FailedFetchWritesNothing ==
    [][(counter' = counter + 1 /\ step'.response.kind \in TransportFailures)
        => (files' = files /\ opened' = opened)]_vars

C10_Witness ==
    /\ Stepped
    /\ step.response.kind \in TransportFailures
    /\ step.existed
    /\ files[StepPath] = step.before

====
